---- MODULE Spec2Model ----
(***************************************************************************)
(* A model of omnimat.py: the command-line script, main, CalendarReader    *)
(* (__init__, read_events, _is_event_in_range, _get_attendee_status) and   *)
(* CalendarPrinter.print_events.                                           *)
(*                                                                         *)
(* Time is counted in whole hours.  A Python date or datetime is a record  *)
(* [kind, y, m, d, hour, aware, off]: kind is "None", "date" or            *)
(* "datetime"; aware says whether tzinfo is set and off is the UTC offset  *)
(* of that tzinfo in hours.  Aware datetimes compare by their UTC instant, *)
(* as Python compares them.                                                *)
(***************************************************************************)
EXTENDS Integers, Sequences, FiniteSets, TLC

\* ------------------------------------------------------------------ bounds

\* The longest component sequence gcal.walk() yields in the pipeline runs.
MaxEvents == 2

\* How many hours the clock may advance while read_events walks the file.
MaxTicks == 2

\* The longest ATTENDEE list of the components given to _get_attendee_status
\* in the function-level specification.
MaxAttendees == 3

\* ------------------------------------------------- Python values: datetimes

NoDt == [kind |-> "None", y |-> 0, m |-> 0, d |-> 0, hour |-> 0, aware |-> FALSE, off |-> 0]

Date(y, m, d) ==
  [kind |-> "date", y |-> y, m |-> m, d |-> d, hour |-> 0, aware |-> FALSE, off |-> 0]

Naive(y, m, d, h) ==
  [kind |-> "datetime", y |-> y, m |-> m, d |-> d, hour |-> h, aware |-> FALSE, off |-> 0]

Aware(y, m, d, h, off) ==
  [kind |-> "datetime", y |-> y, m |-> m, d |-> d, hour |-> h, aware |-> TRUE, off |-> off]

IsLeap(y) == (y % 4 = 0) /\ ((y % 100 # 0) \/ (y % 400 = 0))

DaysInMonth(y, m) ==
  IF m = 2 THEN (IF IsLeap(y) THEN 29 ELSE 28)
  ELSE IF m \in {4, 6, 9, 11} THEN 30 ELSE 31

RECURSIVE DaysBeforeMonth(_, _)
DaysBeforeMonth(y, m) ==
  IF m = 1 THEN 0 ELSE DaysBeforeMonth(y, m - 1) + DaysInMonth(y, m - 1)

DaysBeforeYear(y) ==
  (y - 1) * 365 + ((y - 1) \div 4) - ((y - 1) \div 100) + ((y - 1) \div 400)

\* date.toordinal(): the proleptic Gregorian day number.
toordinal(dt) == DaysBeforeYear(dt.y) + DaysBeforeMonth(dt.y, dt.m) + dt.d

\* The UTC instant (in hours) of an aware datetime: what <= compares.
Instant(dt) == (toordinal(dt) * 24 + dt.hour) - dt.off

\* datetime.timedelta(days=n), in hours.
timedelta(days) == days * 24

\* ------------------------------------------------ Python values: arguments

\* A command-line argument (a string) by what int() and strptime() make of it:
\* "int" is a decimal integer n, "date" is DD_MM_YYYY with the fields d, m, y,
\* "text" is any other non-empty string, "empty" is "", "None" is no argument.
Tok(kind, n, d, m, y) == [kind |-> kind, n |-> n, d |-> d, m |-> m, y |-> y]
NoneArg == Tok("None", 0, 0, 0, 0)
IntArg(n) == Tok("int", n, 0, 0, 0)
DateArg(d, m, y) == Tok("date", 0, d, m, y)
TextArg == Tok("text", 0, 0, 0, 0)
EmptyArg == Tok("empty", 0, 0, 0, 0)

\* Python's truth value of an argument: None, "" and 0 are false.
Truthy(a) ==
  CASE a.kind = "None" -> FALSE
    [] a.kind = "empty" -> FALSE
    [] a.kind = "int" -> a.n # 0
    [] OTHER -> TRUE

\* int(s): a [ok, val] pair, ok = FALSE standing for ValueError.
int(a) == IF a.kind = "int" THEN [ok |-> TRUE, val |-> a] ELSE [ok |-> FALSE, val |-> NoneArg]

\* datetime.datetime.strptime(s, "%d_%m_%Y").replace(tzinfo=timezone.utc):
\* ok = FALSE stands for ValueError (not of the format, or no such day).
strptime(a) ==
  IF a.kind = "date" /\ a.m \in 1..12 /\ a.d >= 1 /\ a.d <= DaysInMonth(a.y, a.m)
  THEN [ok |-> TRUE, val |-> Aware(a.y, a.m, a.d, 0, 0)]
  ELSE [ok |-> FALSE, val |-> NoDt]

\* ----------------------------------------------- Python values: components

Attendee(has_params, partstat) ==
  [addr |-> "mailto:a@example.org", has_params |-> has_params, PARTSTAT |-> partstat]

\* What component.get("attendee") returns: None, one vCalAddress, or a list of
\* two or more of them.
NoAttendee == [kind |-> "None", atts |-> <<>>]
Single(a) == [kind |-> "single", atts |-> <<a>>]
List(s) == [kind |-> "list", atts |-> s]

Component(name, dtstart, summary, attendee) ==
  [name |-> name, dtstart |-> dtstart, summary |-> summary, attendee |-> attendee]

Accepted == Attendee(TRUE, "ACCEPTED")
Declined == Attendee(TRUE, "DECLINED")

\* The components the pipeline runs draw calendar files from.
Components ==
  { Component("VEVENT", Date(2024, 1, 1), "Kickoff", Single(Accepted)),
    Component("VEVENT", Naive(2024, 1, 31, 0), "Review", List(<<Declined, Accepted>>)),
    Component("VEVENT", Aware(2024, 1, 31, 2, 2), "Sync", Single(Accepted)),
    Component("VEVENT", Date(2024, 2, 1), "Plan", Single(Accepted)),
    Component("VEVENT", Naive(2024, 1, 31, 13), "Demo", Single(Accepted)),
    Component("VEVENT", Date(2024, 1, 31), "Retro", NoAttendee),
    Component("VEVENT", NoDt, "Broken", Single(Accepted)),
    Component("VTODO", NoDt, "Todo", NoAttendee) }

RECURSIVE SeqsUpTo(_, _)
SeqsUpTo(S, n) ==
  IF n = 0 THEN {<<>>}
  ELSE LET shorter == SeqsUpTo(S, n - 1)
       IN shorter \cup {Append(s, x) : s \in {t \in shorter : Len(t) = n - 1}, x \in S}

\* The calendar file at file_path: missing, not parsable, or a document whose
\* walk yields the components.
Files ==
  {[state |-> "missing", components |-> <<>>], [state |-> "malformed", components |-> <<>>]}
    \cup {[state |-> "ok", components |-> s] : s \in SeqsUpTo(Components, MaxEvents)}

\* sys.argv of the runs: the program, the file path and the range arguments.
Argvs ==
  { <<TextArg, TextArg>>,
    <<TextArg, TextArg, IntArg(0)>>,
    <<TextArg, TextArg, IntArg(7)>>,
    <<TextArg, TextArg, TextArg>>,
    <<TextArg, TextArg, DateArg(1, 1, 2024), DateArg(31, 1, 2024)>>,
    <<TextArg, TextArg, DateArg(1, 1, 2024), DateArg(31, 2, 2024)>>,
    <<TextArg, TextArg, EmptyArg, EmptyArg>>,
    <<TextArg, TextArg, TextArg, TextArg, TextArg>> }

\* The clock when a run starts: 2024-01-31 12:00 UTC.
StartClock == Instant(Aware(2024, 1, 31, 12, 0))

\* ------------------------------------------------------------ CalendarEvent

CalendarEvent(summary, start, attendee_status) ==
  [summary |-> summary, start |-> start, attendee_status |-> attendee_status]

\* ----------------------------------------------------------- CalendarReader

\* CalendarReader.__init__: the parsed range fields, or ValueError (ok = FALSE)
\* from strptime.  A false start_date or end_date (None, "") is stored as None.
CalendarReader(days_before, start_date, end_date) ==
  LET s == IF Truthy(start_date) THEN strptime(start_date) ELSE [ok |-> TRUE, val |-> NoDt]
      e == IF Truthy(end_date) THEN strptime(end_date) ELSE [ok |-> TRUE, val |-> NoDt]
  IN [ok |-> s.ok /\ e.ok,
      days_before |-> days_before, start_date |-> s.val, end_date |-> e.val]

NoReader == [ok |-> FALSE, days_before |-> NoneArg, start_date |-> NoDt, end_date |-> NoDt]

\* The start-time normalisation of read_events: a date is combined with
\* time.min and UTC, a naive datetime gets tzinfo=UTC, anything else is kept.
\* Faulty variant: an aware start is re-zeroed to UTC instead of kept.
NormalizeRezero(start) ==
  IF start.kind = "date"
  THEN [start EXCEPT !.kind = "datetime", !.hour = 0, !.aware = TRUE, !.off = 0]
  ELSE [start EXCEPT !.aware = TRUE, !.off = 0]

Normalize(start) ==
  IF start.kind = "date"
  THEN [start EXCEPT !.kind = "datetime", !.hour = 0, !.aware = TRUE, !.off = 0]
  ELSE IF start.kind = "datetime" /\ ~start.aware
  THEN [start EXCEPT !.aware = TRUE, !.off = 0]
  ELSE start

\* Whether this call of _is_event_in_range reads the clock (the elif branch).
SamplesNow(self) ==
  ~(self.start_date.kind # "None" /\ self.end_date.kind # "None")
    /\ Truthy(self.days_before)

\* Faulty variant: the explicit interval excludes end_date itself.
is_event_in_range_open_end(self, event_start, now) ==
  IF self.start_date.kind # "None" /\ self.end_date.kind # "None"
  THEN Instant(self.start_date) <= Instant(event_start)
         /\ Instant(event_start) < Instant(self.end_date)
  ELSE IF Truthy(self.days_before)
  THEN LET days_ago == now - timedelta(self.days_before.n)
       IN days_ago <= Instant(event_start) /\ Instant(event_start) <= now
  ELSE TRUE

\* CalendarReader._is_event_in_range; now is what datetime.now(timezone.utc)
\* returns when the call is made.
is_event_in_range(self, event_start, now) ==
  IF self.start_date.kind # "None" /\ self.end_date.kind # "None"
  THEN Instant(self.start_date) <= Instant(event_start)
         /\ Instant(event_start) <= Instant(self.end_date)
  ELSE IF Truthy(self.days_before)
  THEN LET days_ago == now - timedelta(self.days_before.n)
       IN days_ago <= Instant(event_start) /\ Instant(event_start) <= now
  ELSE TRUE

\* Python's truth value of component.get("attendee"): None is false, a
\* vCalAddress is a str and is false when empty, a list is false when empty.
AttendeesTruthy(attendees) ==
  CASE attendees.kind = "None" -> FALSE
    [] attendees.kind = "single" -> attendees.atts[1].addr # ""
    [] OTHER -> Len(attendees.atts) > 0

\* The for loop of _get_attendee_status from position k on: the first attendee
\* with params and PARTSTAT == "ACCEPTED" returns.
RECURSIVE AttendeeLoop(_, _)
AttendeeLoop(atts, k) ==
  IF k > Len(atts) THEN "DECLINED"
  ELSE IF atts[k].has_params /\ atts[k].PARTSTAT = "ACCEPTED" THEN "ACCEPTED"
  ELSE AttendeeLoop(atts, k + 1)

\* Faulty variant: only the first attendee is inspected.
get_attendee_status_first_only(component) ==
  LET attendees == component.attendee
  IN IF AttendeesTruthy(attendees)
     THEN (IF attendees.atts[1].has_params /\ attendees.atts[1].PARTSTAT = "ACCEPTED"
           THEN "ACCEPTED" ELSE "DECLINED")
     ELSE "DECLINED"

\* CalendarReader._get_attendee_status.
get_attendee_status(component) ==
  LET attendees == component.attendee
  IN IF AttendeesTruthy(attendees) THEN AttendeeLoop(attendees.atts, 1) ELSE "DECLINED"

\* sorted(events, key=lambda event: event.start): Python's sort is stable, so
\* an event goes behind every event whose start is not later than its own.
RECURSIVE InsertByStart(_, _)
InsertByStart(e, s) ==
  IF s = <<>> THEN <<e>>
  ELSE IF Instant(e.start) < Instant(Head(s).start) THEN <<e>> \o s
  ELSE <<Head(s)>> \o InsertByStart(e, Tail(s))

\* Faulty variant: an event goes in front of events with an equal start, so
\* ties come out reversed.
RECURSIVE InsertBeforeEqual(_, _)
InsertBeforeEqual(e, s) ==
  IF s = <<>> THEN <<e>>
  ELSE IF Instant(e.start) <= Instant(Head(s).start) THEN <<e>> \o s
  ELSE <<Head(s)>> \o InsertBeforeEqual(e, Tail(s))

RECURSIVE sorted_unstable(_)
sorted_unstable(events) ==
  IF events = <<>> THEN <<>>
  ELSE InsertBeforeEqual(events[Len(events)], sorted_unstable(SubSeq(events, 1, Len(events) - 1)))

RECURSIVE sorted(_)
sorted(events) ==
  IF events = <<>> THEN <<>>
  ELSE InsertByStart(events[Len(events)], sorted(SubSeq(events, 1, Len(events) - 1)))

\* ---------------------------------------------------------- CalendarPrinter

\* A number as at least `width` decimal digits, zero-padded (%d, %m: 2; %Y: 4).
RECURSIVE Padded(_, _)
Padded(n, width) ==
  IF width <= 1 THEN ToString(n)
  ELSE IF n < 10 THEN "0" \o Padded(n, width - 1)
  ELSE Padded(n \div 10, width - 1) \o ToString(n % 10)

\* event.start.strftime('%d.%m.%Y'): the datetime's own calendar fields.
strftime(dt) == Padded(dt.d, 2) \o "." \o Padded(dt.m, 2) \o "." \o Padded(dt.y, 4)

\* The f-string of print_events.
FormatEvent(event) ==
  "project meeting: " \o event.summary \o "_" \o strftime(event.start) \o ";"

\* sep.join(strings).
RECURSIVE join(_, _)
join(sep, strings) ==
  IF strings = <<>> THEN ""
  ELSE IF Len(strings) = 1 THEN strings[1]
  ELSE strings[1] \o sep \o join(sep, Tail(strings))

\* Faulty variant: the lines are joined by a bare newline.
formatted_events_newline_only(events) ==
  join("\n", [k \in 1..Len(events) |-> FormatEvent(events[k])])

\* The text print_events hands to print().
formatted_events(events) ==
  join(" \n", [k \in 1..Len(events) |-> FormatEvent(events[k])])

\* -------------------------------------------------------------------- state

VARIABLES
  entry,            \* "script": run as a program; "main": main() called directly
  argv,             \* sys.argv (argv[1] here is sys.argv[0])
  file,             \* the calendar file at file_path
  pc,               \* where the run is
  args,             \* the arguments main was called with
  reader,           \* the CalendarReader's fields
  i,                \* how many components of gcal.walk() the loop has consumed
  clock,            \* the current UTC time, in hours
  checked,          \* one record per VEVENT that reached _is_event_in_range
  events,           \* read_events' local list, in append order
  result,           \* the list read_events returned
  stdout,           \* the texts written by print(), one per call
  exit,             \* "running", "0", "1" (sys.exit(1)) or "traceback"
  exc,              \* the exception that ended the run uncaught, or "None"
  component,        \* the component given to _get_attendee_status on its own
  attendee_status   \* and what it returned

vars ==
  <<entry, argv, file, pc, args, reader, i, clock, checked, events, result,
    stdout, exit, exc, component, attendee_status>>

NoArgs == [days_before |-> NoneArg, start_date |-> NoneArg, end_date |-> NoneArg]

NoComponent == Component("None", NoDt, "", NoAttendee)

\* A run of the script on a command line, or a direct call of main(file_path)
\* with the range arguments left at their defaults.
Init ==
  /\ \/ entry = "script" /\ argv \in Argvs /\ pc = "script"
     \/ entry = "main" /\ argv = <<>> /\ pc = "main"
  /\ file \in Files
  /\ args = NoArgs
  /\ reader = NoReader
  /\ i = 0
  /\ clock = StartClock
  /\ checked = <<>>
  /\ events = <<>>
  /\ result = <<>>
  /\ stdout = <<>>
  /\ exit = "running"
  /\ exc = "None"
  /\ component = NoComponent
  /\ attendee_status = "None"

\* ------------------------------------------------------------------ actions

\* Whether the run is inside the try block of the script (len(sys.argv) == 3).
InTry == entry = "script" /\ Len(argv) = 3

\* An exception e leaves the current call: the script's except ValueError
\* catches it inside the try block, prints and exits with status 1; anything
\* else ends the run with a traceback.
Raise(e) ==
  IF e = "ValueError" /\ InTry
  THEN /\ stdout' = Append(stdout, "The number of days must be an integer.")
       /\ exit' = "1"
       /\ pc' = "exit"
       /\ exc' = exc
  ELSE /\ stdout' = stdout
       /\ exit' = "traceback"
       /\ pc' = "crashed"
       /\ exc' = e

\* The script body up to its call of main.
Script ==
  /\ pc = "script"
  /\ IF Len(argv) \notin {3, 4}
     THEN /\ stdout' = stdout \o <<"Usage: python script.py <file_path> <days_before>",
                                   "   or: python script.py <file_path> <start_date> <end_date>">>
          /\ exit' = "1"
          /\ pc' = "exit"
          /\ UNCHANGED <<args, exc>>
     ELSE IF Len(argv) = 3
     THEN LET days_before == int(argv[3])
          IN IF days_before.ok
             THEN /\ args' = [NoArgs EXCEPT !.days_before = days_before.val]
                  /\ pc' = "main"
                  /\ UNCHANGED <<stdout, exit, exc>>
             ELSE Raise("ValueError") /\ UNCHANGED args
     ELSE /\ args' = [NoArgs EXCEPT !.start_date = argv[3], !.end_date = argv[4]]
          /\ pc' = "main"
          /\ UNCHANGED <<stdout, exit, exc>>
  /\ UNCHANGED <<entry, argv, file, reader, i, clock, checked, events, result,
                 component, attendee_status>>

\* main: reader = CalendarReader(file_path, days_before, start_date, end_date).
Main ==
  /\ pc = "main"
  /\ LET r == CalendarReader(args.days_before, args.start_date, args.end_date)
     IN IF r.ok
        THEN reader' = r /\ pc' = "open" /\ UNCHANGED <<stdout, exit, exc>>
        ELSE Raise("ValueError") /\ UNCHANGED reader
  /\ UNCHANGED <<entry, argv, file, args, i, clock, checked, events, result,
                 component, attendee_status>>

\* read_events: open(file_path) and Calendar.from_ical(file.read()).
OpenFile ==
  /\ pc = "open"
  /\ IF file.state = "missing" THEN Raise("FileNotFoundError")
     ELSE IF file.state = "malformed" THEN Raise("ValueError")
     ELSE pc' = "walk" /\ UNCHANGED <<stdout, exit, exc>>
  /\ UNCHANGED <<entry, argv, file, args, reader, i, clock, checked, events, result,
                 component, attendee_status>>

\* read_events: one iteration of the loop over gcal.walk().
WalkStep ==
  /\ pc = "walk"
  /\ i < Len(file.components)
  /\ LET c == file.components[i + 1]
     IN IF c.name # "VEVENT"
        THEN i' = i + 1 /\ UNCHANGED <<pc, checked, events, stdout, exit, exc>>
        ELSE IF c.dtstart.kind = "None"
        THEN Raise("AttributeError") /\ UNCHANGED <<i, checked, events>>
        ELSE LET start == Normalize(c.dtstart)
                 in_range == is_event_in_range(reader, start, clock)
                 status == IF in_range THEN get_attendee_status(c) ELSE "unchecked"
             IN /\ checked' = Append(checked,
                                [index |-> i + 1, start |-> start, now |-> clock,
                                 sampled |-> SamplesNow(reader), in_range |-> in_range,
                                 attendee_status |-> status])
                /\ events' = IF in_range /\ status = "ACCEPTED"
                             THEN Append(events, CalendarEvent(c.summary, start, status))
                             ELSE events
                /\ i' = i + 1
                /\ UNCHANGED <<pc, stdout, exit, exc>>
  /\ UNCHANGED <<entry, argv, file, args, reader, clock, result, component, attendee_status>>

\* read_events: return sorted(events, key=lambda event: event.start).
Return ==
  /\ pc = "walk"
  /\ i = Len(file.components)
  /\ result' = sorted(events)
  /\ pc' = "print"
  /\ UNCHANGED <<entry, argv, file, args, reader, i, clock, checked, events, stdout,
                 exit, exc, component, attendee_status>>

\* Faulty variant: the events found so far are printed while the loop runs.
PrintEventsInLoop ==
  /\ pc \in {"walk", "print"}
  /\ pc = "walk" => (stdout = <<>> /\ events # <<>>)
  /\ stdout' = Append(stdout, formatted_events(IF pc = "walk" THEN events ELSE result))
  /\ pc' = IF pc = "print" THEN "done" ELSE pc
  /\ exit' = IF pc = "print" THEN "0" ELSE exit
  /\ UNCHANGED <<entry, argv, file, args, reader, i, clock, checked, events, result,
                 exc, component, attendee_status>>

\* CalendarPrinter.print_events(events), after which the run ends normally.
PrintEvents ==
  /\ pc = "print"
  /\ stdout' = Append(stdout, formatted_events(result))
  /\ pc' = "done"
  /\ exit' = "0"
  /\ UNCHANGED <<entry, argv, file, args, reader, i, clock, checked, events, result,
                 exc, component, attendee_status>>

\* Time passes while the loop runs.
Tick ==
  /\ pc = "walk"
  /\ clock < StartClock + MaxTicks
  /\ clock' = clock + 1
  /\ UNCHANGED <<entry, argv, file, pc, args, reader, i, checked, events, result,
                 stdout, exit, exc, component, attendee_status>>

Next == Script \/ Main \/ OpenFile \/ WalkStep \/ Return \/ PrintEvents \/ Tick

Spec == Init /\ [][Next]_vars

\* --------------------------------- _get_attendee_status as a function on its own

\* The attendees a component may carry: without a params attribute, with
\* params but no PARTSTAT, and with PARTSTAT in several spellings.
AttendeeSet ==
  { Attendee(FALSE, "None"), Attendee(TRUE, "None"), Attendee(TRUE, "ACCEPTED"),
    Attendee(TRUE, "accepted"), Attendee(TRUE, "DECLINED") }

\* What component.get("attendee") may be: None, one attendee, or a list of
\* two to MaxAttendees attendees.
AttendeeValues ==
  {NoAttendee} \cup {Single(a) : a \in AttendeeSet}
    \cup {List(s) : s \in {t \in SeqsUpTo(AttendeeSet, MaxAttendees) : Len(t) >= 2}}

InitAttendee ==
  /\ entry = "function"
  /\ argv = <<>>
  /\ file = [state |-> "ok", components |-> <<>>]
  /\ pc = "call"
  /\ args = NoArgs
  /\ reader = NoReader
  /\ i = 0
  /\ clock = StartClock
  /\ checked = <<>>
  /\ events = <<>>
  /\ result = <<>>
  /\ stdout = <<>>
  /\ exit = "running"
  /\ exc = "None"
  /\ component \in {Component("VEVENT", Date(2024, 1, 10), "Sync", a) : a \in AttendeeValues}
  /\ attendee_status = "None"

\* attendee_status = self._get_attendee_status(component).
GetAttendeeStatus ==
  /\ pc = "call"
  /\ attendee_status' = get_attendee_status(component)
  /\ pc' = "returned"
  /\ UNCHANGED <<entry, argv, file, args, reader, i, clock, checked, events, result,
                 stdout, exit, exc, component>>

NextAttendee == GetAttendeeStatus

SpecAttendee == InitAttendee /\ [][NextAttendee]_vars

\* ------------------------------------------------------------------- claims

\* The instant a DD_MM_YYYY argument names: midnight UTC of that day.
DateInstant(a) == (toordinal([y |-> a.y, m |-> a.m, d |-> a.d]) * 24)

\* Whether a component has an attendee carrying PARTSTAT exactly "ACCEPTED".
SomeAttendeeAccepted(c) ==
  \E k \in 1..Len(c.attendee.atts) :
    c.attendee.atts[k].has_params /\ c.attendee.atts[k].PARTSTAT = "ACCEPTED"

\* The range modes as the supplied arguments select them.
ExplicitMode == args.start_date.kind = "date" /\ args.end_date.kind = "date"
TrailingMode ==
  args.days_before.kind = "int" /\ args.start_date.kind = "None" /\ args.end_date.kind = "None"

\* The date-range predicate of the active mode, for a start instant checked
\* when the clock read now.
DateRangeHolds(start, now) ==
  IF ExplicitMode
  THEN DateInstant(args.start_date) <= Instant(start) /\ Instant(start) <= DateInstant(args.end_date)
  ELSE IF TrailingMode
  THEN now - 24 * args.days_before.n <= Instant(start) /\ Instant(start) <= now
  ELSE TRUE

Count(seq, x) == Cardinality({k \in 1..Len(seq) : seq[k] = x})

\* The events that ought to be returned, in file order.
ShouldBeRetained ==
  LET keep == SelectSeq(checked,
                LAMBDA r : DateRangeHolds(r.start, r.now)
                             /\ SomeAttendeeAccepted(file.components[r.index]))
  IN [k \in 1..Len(keep) |->
        CalendarEvent(file.components[keep[k].index].summary, keep[k].start, "ACCEPTED")]

\* C1: read_events returns exactly the events (as a multiset) whose start is
\* in the range of the active mode and whose attendance is Accepted.
C1_ReturnsExactlyMatching ==
  pc \in {"print", "done"} =>
    \A e \in {result[k] : k \in 1..Len(result)}
               \cup {ShouldBeRetained[k] : k \in 1..Len(ShouldBeRetained)} :
      Count(result, e) = Count(ShouldBeRetained, e)

\* C2: with an integer day count N and no explicit dates, an event passes the
\* date check iff now - N days <= start <= now, and no event outside that
\* window is retained.
C2_TrailingWindow ==
  TrailingMode =>
    /\ \A k \in 1..Len(checked) :
         checked[k].in_range <=>
           (checked[k].now - 24 * args.days_before.n <= Instant(checked[k].start)
              /\ Instant(checked[k].start) <= checked[k].now)
    /\ \A k \in 1..Len(events) :
         \E j \in 1..Len(checked) :
           /\ checked[j].start = events[k].start
           /\ checked[j].now - 24 * args.days_before.n <= Instant(events[k].start)
           /\ Instant(events[k].start) <= checked[j].now

\* C3: with both dates supplied, an event passes the date check iff
\* start_date <= start <= end_date, both ends inclusive, and only such events
\* are retained.
C3_ExplicitInterval ==
  ExplicitMode =>
    /\ \A k \in 1..Len(checked) :
         checked[k].in_range <=>
           (DateInstant(args.start_date) <= Instant(checked[k].start)
              /\ Instant(checked[k].start) <= DateInstant(args.end_date))
    /\ \A k \in 1..Len(events) :
         /\ DateInstant(args.start_date) <= Instant(events[k].start)
         /\ Instant(events[k].start) <= DateInstant(args.end_date)

\* C3 witness: an event starting exactly at end_date passed the check and an
\* event of a later day did not.
C3_Witness ==
  /\ ExplicitMode
  /\ \E j, k \in 1..Len(checked) :
       /\ Instant(checked[j].start) = DateInstant(args.end_date) /\ checked[j].in_range
       /\ Instant(checked[k].start) > DateInstant(args.end_date) /\ ~checked[k].in_range

\* C4: within one run, every event's date comparison that reads the clock
\* uses the same value of now.
C4_NowSampledOnce ==
  \A j, k \in 1..Len(checked) :
    (checked[j].sampled /\ checked[k].sampled) => checked[j].now = checked[k].now

\* C5: _get_attendee_status yields Accepted iff some attendee carries PARTSTAT
\* exactly "ACCEPTED", and Declined otherwise; no attendees is Declined.
C5_AcceptedIffSomeAttendee ==
  pc = "returned" =>
    /\ attendee_status \in {"ACCEPTED", "DECLINED"}
    /\ (attendee_status = "ACCEPTED") <=> SomeAttendeeAccepted(component)
    /\ component.attendee.kind = "None" => attendee_status = "DECLINED"

\* C5 witness: a list whose first attendee does not accept and whose last one
\* does was found Accepted.
C5_Witness ==
  /\ pc = "returned"
  /\ component.attendee.kind = "list"
  /\ component.attendee.atts[1].PARTSTAT # "ACCEPTED"
  /\ component.attendee.atts[Len(component.attendee.atts)].PARTSTAT = "ACCEPTED"
  /\ attendee_status = "ACCEPTED"

Min(S) == CHOOSE x \in S : \A y \in S : x <= y

\* The events grouped by start instant, groups in ascending order, each group
\* in the order of the given sequence.
RECURSIVE GroupsAscending(_, _)
GroupsAscending(seq, instants) ==
  IF instants = {} THEN <<>>
  ELSE LET t == Min(instants)
       IN SelectSeq(seq, LAMBDA e : Instant(e.start) = t)
            \o GroupsAscending(seq, instants \ {t})

\* C6: the returned list is non-decreasing by start instant and is the
\* retained events with ties left in their file order.
C6_SortedStable ==
  pc \in {"print", "done"} =>
    /\ \A j, k \in 1..Len(result) :
         j < k => Instant(result[j].start) <= Instant(result[k].start)
    /\ result = GroupsAscending(events, {Instant(events[k].start) : k \in 1..Len(events)})

\* C6 witness: two different retained events with the same start instant.
C6_Witness ==
  /\ pc = "done"
  /\ \E j, k \in 1..Len(result) :
       j < k /\ result[j] # result[k] /\ Instant(result[j].start) = Instant(result[k].start)

\* C7: exit status 1 with a user-facing message happens only for a wrong
\* argument count or a non-integer day count; a missing or unparsable file
\* ends the run with an uncaught exception in either command-line mode.
C7_ErrorTaxonomy ==
  /\ exit = "1" =>
       (Len(argv) \notin {3, 4} \/ (Len(argv) = 3 /\ argv[3].kind # "int"))
  /\ (file.state # "ok" /\ pc \notin {"script", "main", "open"} /\ reader.ok) =>
       (exit = "traceback" /\ exc \in {"FileNotFoundError", "ValueError"})

UsageTexts ==
  { "Usage: python script.py <file_path> <days_before>",
    "   or: python script.py <file_path> <start_date> <end_date>",
    "The number of days must be an integer." }

\* The writes to standard output that carry event lines.
EventWrites == {k \in 1..Len(stdout) : stdout[k] \notin UsageTexts}

\* C8: event lines are written at most once, only after every component has
\* been read and filtered without failure, and then as the complete result;
\* a failed run has written no event line.
C8_NoPartialOutput ==
  /\ EventWrites # {} =>
       /\ pc = "done" /\ exc = "None" /\ file.state = "ok"
       /\ i = Len(file.components)
       /\ Cardinality(EventWrites) = 1
       /\ \A k \in EventWrites : stdout[k] = formatted_events(sorted(events))
  /\ pc \in {"crashed", "exit"} => EventWrites = {}

\* C8 witness: a run that failed at a later component after it had already
\* retained an event, with nothing written.
C8_Witness ==
  pc = "crashed" /\ exc = "AttributeError" /\ Len(events) >= 1 /\ stdout = <<>>

\* C9: a date-only start becomes that date at midnight UTC, a naive datetime
\* gets UTC with its fields unchanged, an aware datetime is unchanged; every
\* start that reaches the date check or a returned event is aware.
C9_Normalization ==
  /\ \A k \in 1..Len(checked) :
       LET raw == file.components[checked[k].index].dtstart
           n == checked[k].start
       IN /\ n.kind = "datetime" /\ n.aware
          /\ n.y = raw.y /\ n.m = raw.m /\ n.d = raw.d
          /\ raw.kind = "date" => (n.hour = 0 /\ n.off = 0)
          /\ (raw.kind = "datetime" /\ ~raw.aware) => (n.hour = raw.hour /\ n.off = 0)
          /\ (raw.kind = "datetime" /\ raw.aware) => n = raw
  /\ \A k \in 1..Len(events) : events[k].start.kind = "datetime" /\ events[k].start.aware
  /\ \A k \in 1..Len(result) : result[k].start.kind = "datetime" /\ result[k].start.aware

\* C9 witness: a naive start and a start with a non-UTC timezone both reached
\* the date check.
C9_Witness ==
  \E j, k \in 1..Len(checked) :
    LET a == file.components[checked[j].index].dtstart
        b == file.components[checked[k].index].dtstart
    IN a.kind = "datetime" /\ ~a.aware /\ a.hour # 0 /\ b.aware /\ b.off # 0

TwoDigits(n) == IF n < 10 THEN "0" \o ToString(n) ELSE ToString(n)

\* The line of one event: project meeting: {summary}_{DD.MM.YYYY};
ExpectedLine(e) ==
  "project meeting: " \o e.summary \o "_" \o TwoDigits(e.start.d) \o "."
    \o TwoDigits(e.start.m) \o "." \o ToString(e.start.y) \o ";"

\* The first n lines, each but the first preceded by a space and a newline.
RECURSIVE ExpectedText(_, _)
ExpectedText(seq, n) ==
  IF n = 0 THEN ""
  ELSE IF n = 1 THEN ExpectedLine(seq[1])
  ELSE ExpectedText(seq, n - 1) \o " \n" \o ExpectedLine(seq[n])

\* C10: print_events writes one line per event of the sorted list, in its
\* order, joined by space+newline with no separator after the last; for no
\* events the text is empty.
C10_PrintedText ==
  pc = "done" =>
    /\ stdout = <<ExpectedText(result, Len(result))>>
    /\ result = <<>> => stdout = <<"">>
    /\ ( Len(result) = 2 /\ result[1].summary = "Kickoff" /\ result[2].summary = "Plan" ) =>
         stdout = <<"project meeting: Kickoff_01.01.2024; \nproject meeting: Plan_01.02.2024;">>

\* C10 witness: the file lists the 2024-02-01 event before the 2024-01-01
\* event and both lines were printed, the earlier one first.
C10_Witness ==
  /\ pc = "done"
  /\ Len(events) = 2 /\ events[1].summary = "Plan" /\ events[2].summary = "Kickoff"
  /\ Len(result) = 2 /\ result[1].summary = "Kickoff"

====
